---- MODULE Spec2Model ----
(***************************************************************************)
(* Model of src/platform/windows.rs.                                       *)
(*                                                                         *)
(* Part 1: the service loop run_service (lines 472-610) with launch_server *)
(* (612-632) and send_close_async (666-674).  The loop owns session_id,    *)
(* h_process and stored_usid.  What the operating system answers when the  *)
(* loop asks (the active session, the available sessions, the share_rdp    *)
(* registry value, the result of a launch, the fate of a close message) is *)
(* an input of the step that asks; the worker processes are state.         *)
(*                                                                         *)
(* Part 2: the cursor capture get_cursor_data (lines 138-214) with         *)
(* IconInfo (99-134), get_bitmap (216-236), the drawing-context wrappers   *)
(* (238-313), get_rich_cursor_data (315-330) and fix_cursor_mask           *)
(* (332-422).  A capture is one call: what the operating system and the    *)
(* native helpers answer are the inputs of the call, and the call records  *)
(* its inputs, its buffers and the order of its resource calls.            *)
(***************************************************************************)
EXTENDS Integers, FiniteSets, Sequences, TLC

\* ---- bounds of the model
MaxSession == 2
MaxHandles == 2

\* ---- program constants
NULL == 0
None == -1

Sessions == 1..MaxSession
Handles == 1..MaxHandles

\* 0xFFFFFFFF, what get_current_session returns when there is no active
\* session (line 564).  It is only ever compared for equality, so the model
\* takes the first value above the session ids it uses (TLC integers are
\* 32-bit signed and cannot hold 4294967295).
NoSession == MaxSession + 1

\* get_current_session(share_rdp()) (line 443)
ActiveAnswers == Sessions \cup {NoSession}

\* the sids of get_available_sessions(false) (lines 514-517)
SidsAnswers == SUBSET Sessions

VARIABLES
    pc,           \* position in run_service
    status,       \* last ServiceState given to set_service_status
    session_id,   \* let mut session_id            (line 508)
    h_process,    \* let mut h_process             (line 510)
    stored_usid,  \* let mut stored_usid           (line 512)
    nh,           \* number of process handles LaunchProcessWin has returned
    procSid,      \* handle -> session its process runs in, or how it ended
    closes,       \* handle -> CloseHandle calls applied to it: 0, 1, 2 = more
    ev,           \* what the last step of run_service did and was answered
    cur           \* one call of get_cursor_data: its inputs and its result

vars == <<pc, status, session_id, h_process, stored_usid,
          nh, procSid, closes, ev, cur>>

\* line 577: the exit code GetExitCodeProcess reports for a running process.
\* A process may also exit with this very code; procSid then holds it.
STILL_ACTIVE == 259

\* what procSid holds for a handle whose process is not running: None when
\* it exited with any other exit code (or the handle was never returned),
\* STILL_ACTIVE when it exited with exit code 259
Exited == {None, STILL_ACTIVE}

\* handles whose process has not exited
Alive(ps) == {h \in Handles : ps[h] \notin Exited}

alive == Alive(procSid)

\* ---- record of one step of run_service
\*  kind    which step ran
\*  tmp     the value get_current_session returned in it (None: not called)
\*  usid    the session id carried by a UserSid message (None: none)
\*  has     sids.contains(&session_id) at the top of the loop
\*  share   is_share_rdp() read at the top of the loop
\*  launch  the launch_server call it made
\*  notes   number of send_close_async calls it made
\*  sas     whether it called send_sas
NoLaunch == [att |-> FALSE, sid |-> None, close_first |-> FALSE, h |-> NULL]

Attempt(sid, close_first, h) ==
    [att |-> TRUE, sid |-> sid, close_first |-> close_first, h |-> h]

Ev(kind, tmp, launch, notes) ==
    [kind |-> kind, tmp |-> tmp, usid |-> None, has |-> FALSE, share |-> FALSE,
     launch |-> launch, notes |-> notes, sas |-> FALSE]

\* ---- send_close_async(""): connect to the worker's channel, send Close and
\* sleep(0.1) (667-672); the caller drops the result.  The loop is parked in
\* these awaits while worker processes run on: gone maps the workers that
\* have exited when the call returns to how they ended, the one that
\* received the Close as well as any that exited by itself meanwhile (none
\* when the connect fails or the message is ignored).
send_close_async(ps, gone) ==
    [h \in Handles |-> IF h \in DOMAIN gone THEN gone[h] ELSE ps[h]]

\* the workers that may exit during one send_close_async call, each with
\* the way it ended
Departures(ps) == UNION {[X -> Exited] : X \in SUBSET Alive(ps)}

\* no worker exits
NoDeparture == [h \in {} |-> None]

\* ---- the service-control callback event_handler (474-484) runs on a
\* thread of its own.  On Stop | Preshutdown | Shutdown it calls
\* send_close(POSTFIX_SERVICE), which connects to the loop's listener and
\* sends ipc::Data::Close: all it does to the loop is to queue that
\* connection.  Queued(p) is position p of the loop with the connection
\* pending.
Queued(p) ==
    IF p = "top" THEN "top_queued"
    ELSE IF p = "wait" THEN "close_queued"
    ELSE p

\* the position a pass ends in: cb says whether the callback queued its
\* connection while the pass was parked in an await
Callback(cb, p) == IF cb THEN Queued(p) ELSE p

\* ---- outcomes of one launch_server call
\*  "ok"   LaunchProcessWin returns a new handle
\*  "null" LaunchProcessWin returns NULL (logged, Ok(NULL))
\*  "err"  std::env::current_exe()? fails (Err)
LaunchOutcomes == IF nh < MaxHandles THEN {"ok", "null", "err"} ELSE {"null", "err"}

launch_server(sid, close_first, ps, gone, out) ==
    LET ps1 == IF close_first THEN send_close_async(ps, gone) ELSE ps
        notes == IF close_first THEN 1 ELSE 0
    IN  IF out = "err"
        THEN [res |-> "Err", h |-> NULL, nh |-> nh, procSid |-> ps1, notes |-> notes]
        ELSE IF out = "null"
        THEN [res |-> "Ok", h |-> NULL, nh |-> nh, procSid |-> ps1, notes |-> notes]
        ELSE [res |-> "Ok", h |-> nh + 1, nh |-> nh + 1,
              procSid |-> [ps1 EXCEPT ![nh + 1] = sid], notes |-> notes]

\* the outcomes that differ for a caller that applies unwrap_or(NULL), which
\* turns Err into the NULL that Ok(NULL) carries
UnwrappedOutcomes == LaunchOutcomes \ {"err"}

\* launch_server(..).await.unwrap_or(NULL)
unwrap_or_NULL(r) == IF r.res = "Ok" THEN r.h ELSE NULL

\* CloseHandle(h): one more call applied to h.  The count distinguishes
\* never (0), once (1) and more than once (2).
CloseHandle(cl, h) == [cl EXCEPT ![h] = IF @ = 0 THEN 1 ELSE 2]

\* no call of get_cursor_data has been made
Idle == [pc |-> "idle"]

Init ==
    /\ pc = "start"
    /\ status = "Running"
    /\ session_id = None
    /\ h_process = NULL
    /\ stored_usid = None
    /\ nh = 0
    /\ procSid = [h \in Handles |-> None]
    /\ closes = [h \in Handles |-> 0]
    /\ ev = Ev("init", None, NoLaunch, 0)
    /\ cur = Idle

\* lines 508-510
Start ==
    /\ pc = "start"
    /\ \E a \in ActiveAnswers, gone \in Departures(procSid), out \in UnwrappedOutcomes :
         LET r == launch_server(a, TRUE, procSid, gone, out) IN
         /\ session_id' = a
         /\ h_process' = unwrap_or_NULL(r)
         /\ nh' = r.nh
         /\ procSid' = r.procSid
         /\ ev' = Ev("start", a, Attempt(a, TRUE, r.h), r.notes)
    /\ pc' = "listen"
    /\ UNCHANGED <<status, stored_usid, closes, cur>>

\* lines 511-512, ipc::new_listener succeeds
ListenOk ==
    /\ pc = "listen"
    /\ pc' = "top"
    /\ stored_usid' = None
    /\ ev' = Ev("listen", None, NoLaunch, 0)
    /\ UNCHANGED <<status, session_id, h_process, nh, procSid, closes, cur>>

\* line 511, ipc::new_listener fails: `?` returns the error from run_service
ListenFail ==
    /\ pc = "listen"
    /\ pc' = "failed"
    /\ ev' = Ev("listen_fail", None, NoLaunch, 0)
    /\ UNCHANGED <<status, session_id, h_process, stored_usid, nh, procSid, closes, cur>>

\* whether the callback queues its connection during an await of a pass
\* that began at position p: it may or may not when none is pending yet
AwaitCallbacks(p) == IF p = Queued(p) THEN {FALSE} ELSE BOOLEAN

\* line 518: what sids.contains(&session_id) can be, over the answers
Contains(sid) == {(sid \in sids) : sids \in SidsAnswers}

\* the test of line 518 taken as always true
NeedsCorrection_Always(has, shr) == TRUE

\* line 518: the start-of-iteration test
NeedsCorrection(has, shr) == ~has \/ ~shr

\* lines 514-524
LoopTop ==
    /\ pc \in {"top", "top_queued"}
    /\ \E has \in Contains(session_id), shr \in BOOLEAN :
         IF NeedsCorrection(has, shr)
         THEN \E a \in ActiveAnswers :
                IF session_id # a
                THEN \E gone \in Departures(procSid), out \in UnwrappedOutcomes,
                        cb \in AwaitCallbacks(pc) :
                       LET r == launch_server(a, TRUE, procSid, gone, out) IN
                       /\ pc' = Callback(cb \/ pc = "top_queued", "wait")
                       /\ session_id' = a
                       /\ h_process' = unwrap_or_NULL(r)
                       /\ nh' = r.nh
                       /\ procSid' = r.procSid
                       /\ ev' = [Ev("top", a, Attempt(a, TRUE, r.h), r.notes)
                                   EXCEPT !.has = has, !.share = shr]
                ELSE /\ pc' = Callback(pc = "top_queued", "wait")
                     /\ ev' = [Ev("top", a, NoLaunch, 0) EXCEPT !.has = has, !.share = shr]
                     /\ UNCHANGED <<session_id, h_process, nh, procSid>>
         ELSE /\ pc' = Callback(pc = "top_queued", "wait")
              /\ ev' = [Ev("top", None, NoLaunch, 0) EXCEPT !.has = has, !.share = shr]
              /\ UNCHANGED <<session_id, h_process, nh, procSid>>
    /\ UNCHANGED <<status, stored_usid, closes, cur>>

\* lines 594-609: after the loop
Shutdown(kind) ==
    /\ pc' = "stopped"
    /\ status' = "Stopped"
    /\ IF h_process # NULL
       THEN \E gone \in Departures(procSid) :
              /\ procSid' = send_close_async(procSid, gone)
              /\ closes' = CloseHandle(closes, h_process)
              /\ ev' = Ev(kind, None, NoLaunch, 1)
       ELSE /\ ev' = Ev(kind, None, NoLaunch, 0)
            /\ UNCHANGED <<procSid, closes>>
    /\ UNCHANGED <<session_id, h_process, stored_usid, nh, cur>>

\* such an iteration forgetting the recorded override
Continue_ForgetsOverride(kind, sas, cbs) ==
    /\ \E cb \in cbs : pc' = Callback(cb, "top")
    /\ stored_usid' = None
    /\ ev' = [Ev(kind, None, NoLaunch, 0) EXCEPT !.sas = sas]
    /\ UNCHANGED <<status, session_id, h_process, nh, procSid, closes, cur>>

\* an iteration that changes nothing and goes round the loop; cbs says
\* whether the callback may queue its connection while the iteration is
\* parked in an await
Continue(kind, sas, cbs) ==
    /\ \E cb \in cbs : pc' = Callback(cb, "top")
    /\ ev' = [Ev(kind, None, NoLaunch, 0) EXCEPT !.sas = sas]
    /\ UNCHANGED <<status, session_id, h_process, stored_usid, nh, procSid, closes, cur>>

\* lines 532-535: ipc::Data::Close, break
RecvClose ==
    /\ pc = "wait"
    /\ Shutdown("close")

\* the SAS arm leaving the loop like the Close arm
RecvSAS_Breaks ==
    /\ pc = "wait"
    /\ Shutdown("sas")

\* lines 530, 536-538: ipc::Data::SAS, read in the await of
\* stream.next_timeout(1000) during which the callback may run
RecvSAS ==
    /\ pc = "wait"
    /\ Continue("sas", TRUE, AwaitCallbacks(pc))

\* the usid of ipc::Data::UserSid(usid): Some(u32) or None
UsidInputs == Sessions \cup {NoSession, None}

\* the UserSid arm without line 543 (stored_usid is not recorded)
RecvUserSid_NoRecord ==
    /\ pc = "wait"
    /\ \E usid \in UsidInputs :
         IF usid # None /\ session_id # usid
         THEN \E gone \in Departures(procSid), out \in UnwrappedOutcomes,
                 cb \in AwaitCallbacks(pc) :
                LET r == launch_server(usid, TRUE, procSid, gone, out) IN
                /\ pc' = Callback(cb, "top")
                /\ session_id' = usid
                /\ h_process' = unwrap_or_NULL(r)
                /\ nh' = r.nh
                /\ procSid' = r.procSid
                /\ ev' = [Ev("usid", None, Attempt(usid, TRUE, r.h), r.notes)
                            EXCEPT !.usid = usid]
         ELSE /\ \E cb \in AwaitCallbacks(pc) : pc' = Callback(cb, "top")
              /\ ev' = [Ev("usid", None, NoLaunch, 0) EXCEPT !.usid = usid]
              /\ UNCHANGED <<session_id, h_process, nh, procSid>>
    /\ UNCHANGED <<status, stored_usid, closes, cur>>

\* the UserSid arm recording stored_usid (line 543) outside the test of line 542
RecvUserSid_AlwaysRecord ==
    /\ pc = "wait"
    /\ \E usid \in UsidInputs :
         IF usid # None /\ session_id # usid
         THEN \E gone \in Departures(procSid), out \in UnwrappedOutcomes,
                 cb \in AwaitCallbacks(pc) :
                LET r == launch_server(usid, TRUE, procSid, gone, out) IN
                /\ pc' = Callback(cb, "top")
                /\ session_id' = usid
                /\ stored_usid' = usid
                /\ h_process' = unwrap_or_NULL(r)
                /\ nh' = r.nh
                /\ procSid' = r.procSid
                /\ ev' = [Ev("usid", None, Attempt(usid, TRUE, r.h), r.notes)
                            EXCEPT !.usid = usid]
         ELSE /\ \E cb \in AwaitCallbacks(pc) : pc' = Callback(cb, "top")
              /\ ev' = [Ev("usid", None, NoLaunch, 0) EXCEPT !.usid = usid]
              /\ stored_usid' = usid
              /\ UNCHANGED <<session_id, h_process, nh, procSid>>
    /\ UNCHANGED <<status, closes, cur>>

\* lines 539-553: ipc::Data::UserSid(usid)
RecvUserSid ==
    /\ pc = "wait"
    /\ \E usid \in UsidInputs :
         IF usid # None /\ session_id # usid
         THEN \E gone \in Departures(procSid), out \in UnwrappedOutcomes,
                 cb \in AwaitCallbacks(pc) :
                LET r == launch_server(usid, TRUE, procSid, gone, out) IN
                /\ pc' = Callback(cb, "top")
                /\ session_id' = usid
                /\ stored_usid' = usid
                /\ h_process' = unwrap_or_NULL(r)
                /\ nh' = r.nh
                /\ procSid' = r.procSid
                /\ ev' = [Ev("usid", None, Attempt(usid, TRUE, r.h), r.notes)
                            EXCEPT !.usid = usid]
         ELSE /\ \E cb \in AwaitCallbacks(pc) : pc' = Callback(cb, "top")
              /\ ev' = [Ev("usid", None, NoLaunch, 0) EXCEPT !.usid = usid]
              /\ UNCHANGED <<session_id, stored_usid, h_process, nh, procSid>>
    /\ UNCHANGED <<status, closes, cur>>

\* lines 530, 554: any other ipc::Data
RecvOther ==
    /\ pc = "wait"
    /\ Continue("other", FALSE, AwaitCallbacks(pc))

\* line 530: stream.next_timeout(1000) gives Err or Ok(None)
ReadTimeout ==
    /\ pc = "wait"
    /\ Continue("readtimeout", FALSE, AwaitCallbacks(pc))

\* line 558: incoming.next() gives None or Some(Err); nothing is awaited
\* after the wait of line 525
AcceptNone ==
    /\ pc = "wait"
    /\ Continue("noconn", FALSE, {FALSE})

\* the test of line 568 without its stored_usid conjunct
SessionChanged_NoSticky(tmp, sid, usid) == tmp # sid

\* line 568: the session-change test of the timeout branch
SessionChanged(tmp, sid, usid) == tmp # sid /\ usid # sid

\* lines 575-578: h_process.is_null() || (GetExitCodeProcess(..) == TRUE
\*   && exit_code != STILL_ACTIVE && CloseHandle(h_process) == TRUE).
\* For a handle the loop has already closed the two calls act on an invalid
\* or reused handle value; st is what they do then:
\*   "invalid"    GetExitCodeProcess fails, CloseHandle is not called
\*   "closed"     both succeed and report an exited process
\*   "closefail"  GetExitCodeProcess reports an exited process, CloseHandle fails
StaleOutcomes(h, cl) ==
    IF h # NULL /\ cl[h] >= 1 THEN {"invalid", "closed", "closefail"} ELSE {"invalid"}

\* For a handle the loop holds open, GetExitCodeProcess succeeds and
\* exit_code is STILL_ACTIVE while the process runs and the code it exited
\* with afterwards, so a process that exited with exit code 259 passes for
\* a running one.
LivenessCheck(h, ps, cl, st) ==
    IF h = NULL THEN [relaunch |-> TRUE, closed |-> FALSE]
    ELSE IF cl[h] = 0
    THEN LET exit_code == IF h \in Alive(ps) THEN STILL_ACTIVE ELSE ps[h] IN
         IF exit_code # STILL_ACTIVE
         THEN [relaunch |-> TRUE, closed |-> TRUE]
         ELSE [relaunch |-> FALSE, closed |-> FALSE]
    ELSE IF st = "closed" THEN [relaunch |-> TRUE, closed |-> TRUE]
    ELSE IF st = "closefail" THEN [relaunch |-> FALSE, closed |-> TRUE]
    ELSE [relaunch |-> FALSE, closed |-> FALSE]

\* lines 560-590
Timeout ==
    /\ pc = "wait"
    /\ \E tmp \in ActiveAnswers :
         IF tmp = NoSession
         THEN /\ pc' = "top"
              /\ ev' = Ev("timeout", tmp, NoLaunch, 0)
              /\ UNCHANGED <<session_id, h_process, nh, procSid, closes>>
         ELSE LET close_sent == SessionChanged(tmp, session_id, stored_usid)
                  sid1 == IF close_sent THEN tmp ELSE session_id
                  sent == IF close_sent THEN 1 ELSE 0
              IN  \E gone1 \in IF close_sent THEN Departures(procSid) ELSE {NoDeparture},
                     st \in StaleOutcomes(h_process, closes) :
                    LET ps1 == IF close_sent THEN send_close_async(procSid, gone1) ELSE procSid
                        lc == LivenessCheck(h_process, ps1, closes, st)
                    IN  /\ session_id' = sid1
                        /\ closes' = IF lc.closed THEN CloseHandle(closes, h_process) ELSE closes
                        /\ IF lc.relaunch
                           THEN \E gone2 \in IF close_sent THEN {NoDeparture}
                                                            ELSE Departures(ps1),
                                   out \in LaunchOutcomes, cb \in AwaitCallbacks(pc) :
                                  LET r == launch_server(sid1, ~close_sent, ps1, gone2, out) IN
                                  /\ pc' = Callback(cb, "top")
                                  /\ h_process' = IF r.res = "Ok" THEN r.h ELSE h_process
                                  /\ nh' = r.nh
                                  /\ procSid' = r.procSid
                                  /\ ev' = Ev("timeout", tmp,
                                              Attempt(sid1, ~close_sent, r.h),
                                              sent + r.notes)
                           ELSE /\ \E cb \in IF close_sent THEN AwaitCallbacks(pc)
                                                              ELSE {FALSE} :
                                       pc' = Callback(cb, "top")
                                /\ procSid' = ps1
                                /\ ev' = Ev("timeout", tmp, NoLaunch, sent)
                                /\ UNCHANGED <<h_process, nh>>
    /\ UNCHANGED <<status, stored_usid, cur>>

\* a worker process exits by itself, with exit code 259 or another
WorkerExit ==
    /\ pc \in {"listen", "top", "top_queued", "wait", "close_queued"}
    /\ \E h \in alive, code \in Exited : procSid' = [procSid EXCEPT ![h] = code]
    /\ UNCHANGED <<pc, status, session_id, h_process, stored_usid, nh, closes, ev, cur>>

\* a callback that also drops the worker handle
ControlStop_DropsWorker ==
    /\ pc \in {"top", "wait"}
    /\ pc' = Queued(pc)
    /\ h_process' = NULL
    /\ UNCHANGED <<status, session_id, stored_usid, nh, procSid, closes, ev, cur>>

\* lines 474-484, 661-674: Stop | Preshutdown | Shutdown calls
\* send_close(POSTFIX_SERVICE) between two passes of the loop (the callbacks
\* that run inside a pass are part of that pass).  A failed connect or
\* send is dropped by .ok() (no step), which is also what happens before
\* the listener exists (line 511) and after the loop (594-609, nothing
\* accepts any more); Interrogate and the other events do nothing.
ControlStop ==
    /\ pc \in {"top", "wait"}
    /\ pc' = Queued(pc)
    /\ UNCHANGED <<status, session_id, h_process, stored_usid, nh, procSid, closes, ev, cur>>

\* lines 525-535: the loop accepts the callback's connection, reads Close, breaks
RecvCtlClose ==
    /\ pc = "close_queued"
    /\ Shutdown("ctlclose")

Next ==
    \/ Start
    \/ ListenOk
    \/ ListenFail
    \/ LoopTop
    \/ RecvClose
    \/ RecvSAS
    \/ RecvUserSid
    \/ RecvOther
    \/ ReadTimeout
    \/ AcceptNone
    \/ Timeout
    \/ WorkerExit
    \/ ControlStop
    \/ RecvCtlClose

Spec == Init /\ [][Next]_vars

TypeOK ==
    /\ pc \in {"start", "listen", "top", "top_queued", "wait", "close_queued",
               "stopped", "failed"}
    /\ status \in {"Running", "Stopped"}
    /\ session_id \in Sessions \cup {NoSession, None}
    /\ h_process \in Handles \cup {NULL}
    /\ stored_usid \in Sessions \cup {NoSession, None}
    /\ nh \in 0..MaxHandles
    /\ alive \subseteq 1..nh
    /\ \A h \in Handles : procSid[h] \in Sessions \cup {NoSession} \cup Exited
    /\ \A h \in Handles : closes[h] \in {0, 1, 2}

\* lines 525-591: the await of line 525 completes and the match runs
WaitIteration ==
    \/ RecvClose
    \/ RecvSAS
    \/ RecvUserSid
    \/ RecvOther
    \/ ReadTimeout
    \/ AcceptNone
    \/ Timeout

\* the loop keeps iterating: the calls at the top of an iteration return, the
\* bounded wait of line 525 completes, and a pending connection is accepted
SpecFair ==
    /\ Init
    /\ [][Next]_vars
    /\ WF_vars(LoopTop)
    /\ WF_vars(WaitIteration)
    /\ WF_vars(RecvCtlClose)

(***************************************************************************)
(* Part 2: get_cursor_data                                                 *)
(***************************************************************************)

\* ---- bounds of the cursor inputs
MaxW == 2       \* bm_mask.bmWidth is in 1..MaxW, or is WideW
WideW == 9      \* a width whose mask rows take more than one byte
MaxH == 2       \* the icon height is in 1..MaxH (a monochrome mask is twice as high)
PatLen == 2     \* buffers the operating system fills repeat a pattern of PatLen items

\* the 4-byte pixels get_di_bits may write (device order, byte 3 is alpha)
Palette == {<<0, 0, 0, 0>>, <<0, 0, 9, 0>>, <<5, 6, 7, 0>>, <<5, 6, 7, 200>>}

\* the bytes GetBitmapBits may write
MaskBytes == {0, 255, 160}

\* xHotspot, yHotspot of the ICONINFO
HotSpots == {<<0, 1>>, <<1, 0>>}

\* n bytes repeating pat
PatBuf(pat, n) == [i \in 1..n |-> pat[((i - 1) % Len(pat)) + 1]]

\* n pixels repeating ppat, 4 bytes each
PixBuf(ppat, n) ==
    [i \in 1..(4 * n) |-> ppat[(((i - 1) \div 4) % Len(ppat)) + 1][((i - 1) % 4) + 1]]

\* cbits.resize(n, 0)
Zeros(n) == [i \in 1..n |-> 0]

\* s[i] for a zero-based index i
At(s, i) == s[i + 1]

\* bit of column x in a mask byte, most significant bit first
\* (bitmask = 0x80 >> (x & 7), lines 370, 393-396)
Bitmask(x) == 2 ^ (7 - (x % 8))
BitAt(byte, x) == (byte \div Bitmask(x)) % 2

\* BITMAP.bmWidthBytes of a 1-bit-per-pixel bitmap: rows are word aligned
bmWidthBytes(w) == 2 * ((w + 15) \div 16)

\* ---- fix_cursor_mask, lines 332-422

\* lines 339-347: some pixel has a non-zero alpha byte
AnyAlpha_Never(cbits, width, height) == FALSE

AnyAlpha(cbits, width, height) ==
    \E p \in 0..(width * height - 1) : At(cbits, 4 * p + 3) # 0

\* the repack run from its last iteration to its first
RECURSIVE PackInvert_Descending(_, _, _, _, _)
PackInvert_Descending(mbits, k, height, packed_width_bytes, bm_width_bytes) ==
    IF k >= height * packed_width_bytes THEN mbits
    ELSE LET j == height * packed_width_bytes - 1 - k
             y == j \div packed_width_bytes
             x == j % packed_width_bytes
             a == y * packed_width_bytes + x
             b == y * bm_width_bytes + x
             m1 == IF a < Len(mbits) /\ b < Len(mbits)
                   THEN [mbits EXCEPT ![a + 1] = 255 - At(mbits, b)]
                   ELSE mbits
         IN  PackInvert_Descending(m1, k + 1, height, packed_width_bytes, bm_width_bytes)

\* lines 355-363, run in place in the order of the two loops; k counts the
\* iterations done
RECURSIVE PackInvert(_, _, _, _, _)
PackInvert(mbits, k, height, packed_width_bytes, bm_width_bytes) ==
    IF k >= height * packed_width_bytes THEN mbits
    ELSE LET y == k \div packed_width_bytes
             x == k % packed_width_bytes
             a == y * packed_width_bytes + x
             b == y * bm_width_bytes + x
             m1 == IF a < Len(mbits) /\ b < Len(mbits)
                   THEN [mbits EXCEPT ![a + 1] = 255 - At(mbits, b)]
                   ELSE mbits
         IN  PackInvert(m1, k + 1, height, packed_width_bytes, bm_width_bytes)

\* lines 376-390: the first b1 in 0..4 with cbits[pix_idx + b1] != 0, or 4
FirstNonZero(cbits, pix_idx) ==
    LET hits == {b1 \in 0..3 : pix_idx + b1 < Len(cbits) /\ At(cbits, pix_idx + b1) # 0}
    IN  IF hits = {} THEN 4 ELSE CHOOSE b1 \in hits : \A b \in hits : b1 <= b

\* line 380 without the toggle
Toggle_Keep(byte, bitmask) == byte

\* line 380: mbits[mask_idx] ^= bitmask, applied where the bit is 0
Toggle(byte, bitmask) == byte + bitmask

\* lines 372-392 for the pixel number k (row by row); mc holds mbits and cbits
ReplacePixel(mc, k, width, packed_width_bytes) ==
    LET y == k \div width
        x == k % width
        mask_idx == y * packed_width_bytes + (x \div 8)
        pix_idx == y * (width * 4) + (x * 4)
        b1 == FirstNonZero(mc.c, pix_idx)
    IN  IF mask_idx < Len(mc.m) /\ BitAt(At(mc.m, mask_idx), x) = 0 /\ b1 < 4
        THEN [m |-> [mc.m EXCEPT ![mask_idx + 1] = Toggle(@, Bitmask(x))],
              c |-> [i \in 1..Len(mc.c) |->
                       IF i - 1 >= pix_idx + b1 /\ i - 1 < pix_idx + 4
                       THEN 0 ELSE mc.c[i]]]
        ELSE mc

\* lines 369-398
RECURSIVE ReplaceInverted(_, _, _, _, _)
ReplaceInverted(mc, k, width, height, packed_width_bytes) ==
    IF k >= width * height THEN mc
    ELSE ReplaceInverted(ReplacePixel(mc, k, width, packed_width_bytes),
                         k + 1, width, height, packed_width_bytes)

\* lines 405-410 giving 255 whatever the mask bit
AlphaOf_Opaque(mbits, mask_idx, x) == 255

\* lines 405-410: (mbits[mask_idx] << (x & 0x7)) & 0x80, in u8
AlphaOf(mbits, mask_idx, x) ==
    IF mask_idx < Len(mbits)
       /\ (((At(mbits, mask_idx) * (2 ^ (x % 8))) % 256) \div 128) % 2 = 0
    THEN 0 ELSE 255

\* lines 401-420: each pixel reads and writes its own four bytes
SwapAndAlpha(mbits, cbits, width, height, packed_width_bytes) ==
    [i \in 1..Len(cbits) |->
       LET k == (i - 1) \div 4
           j == (i - 1) % 4
           pix_idx == 4 * k
           y == k \div width
           x == k % width
           mask_idx == y * packed_width_bytes + (x \div 8)
       IN  IF k >= width * height THEN cbits[i]
           ELSE IF j = 0 THEN At(cbits, pix_idx + 2)
           ELSE IF j = 1 THEN At(cbits, pix_idx + 1)
           ELSE IF j = 2 THEN At(cbits, pix_idx)
           ELSE AlphaOf(mbits, mask_idx, x)]

\* the result carries, beside the return value and the two buffers, the
\* color buffer as the loop of lines 369-398 left it (cmid)
fix_cursor_mask(mbits, cbits, width, height, bm_width_bytes) ==
    IF AnyAlpha(cbits, width, height)
    THEN [ret |-> FALSE, mbits |-> mbits, cbits |-> cbits, cmid |-> cbits]
    ELSE LET packed_width_bytes == (width + 7) \div 8
             m1 == PackInvert(mbits, 0, height, packed_width_bytes, bm_width_bytes)
             mc == ReplaceInverted([m |-> m1, c |-> cbits], 0, width, height,
                                   packed_width_bytes)
         IN  [ret |-> TRUE, mbits |-> mc.m, cmid |-> mc.c,
              cbits |-> SwapAndAlpha(mc.m, mc.c, width, height, packed_width_bytes)]

\* ---- the native helpers

\* handleMask (declared at line 451): one RGBA pixel for each AND/XOR pair
\* of the stacked monochrome mask; inv is the pixel written for AND=1, XOR=1
MonoPixel(and_bit, xor_bit, inv) ==
    IF and_bit = 1 /\ xor_bit = 0 THEN <<0, 0, 0, 0>>
    ELSE IF and_bit = 0 /\ xor_bit = 0 THEN <<0, 0, 0, 255>>
    ELSE IF and_bit = 0 /\ xor_bit = 1 THEN <<255, 255, 255, 255>>
    ELSE inv

InvPixels == {<<0, 0, 0, 255>>, <<255, 255, 255, 255>>}

handleMask(mbits, width, height, stride, inv) ==
    [i \in 1..(width * height * 4) |->
       LET k == (i - 1) \div 4
           y == k \div width
           x == k % width
           and_bit == BitAt(At(mbits, y * stride + (x \div 8)), x)
           xor_bit == BitAt(At(mbits, (y + height) * stride + (x \div 8)), x)
       IN  MonoPixel(and_bit, xor_bit, inv)[((i - 1) % 4) + 1]]

\* the size of the outline buffer without the border
OutlineLen_NoBorder(width, height) == width * height * 4

\* line 189: the size of the outline buffer
OutlineLen(width, height) == (width + 2) * (height + 2) * 4

\* drawOutline (declared at line 456): the source moved by (1, 1) into the
\* zeroed outline buffer, and every transparent pixel next to an opaque
\* source pixel (one of its eight neighbours) painted opaque black
drawOutline(cbits, width, height) ==
    LET opaque == {p \in (0..(width - 1)) \X (0..(height - 1)) :
                     At(cbits, (p[2] * width + p[1]) * 4 + 3) # 0}
        pix == [k \in 0..((width + 2) * (height + 2) - 1) |->
                  LET sx == (k % (width + 2)) - 1
                      sy == (k \div (width + 2)) - 1
                  IN  IF <<sx, sy>> \in opaque
                      THEN [j \in 1..4 |-> At(cbits, (sy * width + sx) * 4 + j - 1)]
                      ELSE IF \E dx \in {-1, 0, 1}, dy \in {-1, 0, 1} :
                                <<sx + dx, sy + dy>> \in opaque
                      THEN <<0, 0, 0, 255>>
                      ELSE <<0, 0, 0, 0>>]
    IN  [i \in 1..OutlineLen(width, height) |-> pix[(i - 1) \div 4][((i - 1) % 4) + 1]]

\* ---- resources: "+r" is the call that acquires r, "-r" the call that
\* releases it
\*   hbmColor, hbmMask   GetIconInfo / DeleteObject
\*   DC                  GetDC / ReleaseDC
\*   CompatibleDC        CreateCompatibleDC / DeleteDC
\*   Select              SelectObject(dc, hbitmap) / SelectObject(dc, oldbitmap)

\* IconInfo::new, lines 106-113: the bitmaps GetIconInfo created
NewIconInfo(in) ==
    (IF in.color THEN <<"+hbmColor">> ELSE <<>>)
        \o (IF in.icon = "ok" THEN <<"+hbmMask">> ELSE <<>>)

\* Drop for IconInfo, lines 123-134
DropIconInfo(in) ==
    (IF in.color THEN <<"-hbmColor">> ELSE <<>>)
        \o (IF in.icon = "ok" THEN <<"-hbmMask">> ELSE <<>>)

\* the context deleted before the selection is restored
DropBitmapDC_Reversed == <<"-CompatibleDC", "-Select">>

\* Drop for BitmapDC (305-313), then for its field CompatibleDC (276-284)
DropBitmapDC == <<"-Select", "-CompatibleDC">>

\* Drop for CompatibleDC alone (276-284)
DropCompatibleDC == <<"-CompatibleDC">>

\* Drop for DC (252-260)
DropDC == <<"-DC">>

\* what can happen in get_rich_cursor_data
\*   "nodc"    GetDC returns NULL
\*   "nocdc"   CreateCompatibleDC returns NULL
\*   "nosel"   SelectObject returns NULL
\*   "difail"  get_di_bits returns > 0
\*   "ok"
RichOutcomes == {"nodc", "nocdc", "nosel", "difail", "ok"}

\* get_rich_cursor_data, lines 315-330, with DC::new (241-249),
\* CompatibleDC::new (265-273) and BitmapDC::new (289-297)
get_rich_cursor_data(in, width, height, out) ==
    IF in.rich = "nodc"
    THEN [res |-> "Failed to get a drawing context", log |-> <<>>, out |-> out,
          calls |-> {}]
    ELSE IF in.rich = "nocdc"
    THEN [res |-> "Failed to get a compatible drawing context",
          log |-> <<"+DC">> \o DropDC, out |-> out, calls |-> {}]
    ELSE IF in.rich = "nosel"
    THEN [res |-> "Failed to select CompatibleDC",
          log |-> <<"+DC", "+CompatibleDC">> \o DropCompatibleDC \o DropDC, out |-> out,
          calls |-> {}]
    ELSE IF in.rich = "difail"
    THEN [res |-> "Failed to get di bits",
          log |-> <<"+DC", "+CompatibleDC", "+Select">> \o DropBitmapDC \o DropDC,
          out |-> out, calls |-> {"get_di_bits"}]
    ELSE [res |-> "Ok",
          log |-> <<"+DC", "+CompatibleDC", "+Select">> \o DropBitmapDC \o DropDC,
          out |-> PixBuf(in.ppat, width * height), calls |-> {"get_di_bits"}]

\* ---- the inputs of one call
\*  icon   GetIconInfo: "fail" (FALSE), "masknull" (hbmMask NULL), "ok"
\*  color  hbmColor is not NULL
\*  hot    xHotspot, yHotspot
\*  bm     get_bitmap: "GetObjectA", "planes", "bits" (the three errors), "ok"
\*  w, bmh bm_mask.bmWidth, bm_mask.bmHeight
\*  r      what GetBitmapBits returns
\*  mpat   the bytes GetBitmapBits writes
\*  rich   see RichOutcomes
\*  ppat   the pixels get_di_bits writes
\*  flag   what handleMask returns (a C int)
\*  inv    see handleMask
NoInput ==
    [icon |-> "ok", color |-> FALSE, hot |-> <<0, 0>>, bm |-> "ok", w |-> 0, bmh |-> 0,
     r |-> 0, mpat |-> <<0>>, rich |-> "ok", ppat |-> <<<<0, 0, 0, 0>>>>,
     flag |-> 0, inv |-> <<0, 0, 0, 255>>]

\* fix_cursor_mask was not called
NoFix == [called |-> FALSE, ret |-> FALSE, mbits_in |-> <<>>, cbits_in |-> <<>>,
          mbits |-> <<>>, cbits |-> <<>>, cmid |-> <<>>]

\* an early return with an error
Failure(msg, log) ==
    [res |-> msg, width |-> 0, height |-> 0, hotx |-> 0, hoty |-> 0, colors |-> <<>>,
     do_outline |-> FALSE, fix |-> NoFix, log |-> log, req |-> 0, calls |-> {}]

\* the hotspot moved by the outline without its y coordinate
HotShift_XOnly(hot) == <<hot[1] + 1, hot[2]>>

\* lines 200-201
HotShift(hot) == <<hot[1] + 1, hot[2] + 1>>

\* lines 187-213
Finish(in, cbits, width, height, do_outline, fix, log) ==
    LET hot == IF do_outline THEN HotShift(in.hot) ELSE in.hot IN
    [res |-> "Ok",
     width |-> IF do_outline THEN width + 2 ELSE width,
     height |-> IF do_outline THEN height + 2 ELSE height,
     hotx |-> hot[1],
     hoty |-> hot[2],
     colors |-> IF do_outline THEN drawOutline(cbits, width, height) ELSE cbits,
     do_outline |-> do_outline, fix |-> fix,
     log |-> log \o DropIconInfo(in),
     req |-> 0,
     calls |-> IF do_outline THEN {"drawOutline"} ELSE {}]

\* a test that rejects empty icons only
TooSmall_Empty(cbits_size) == cbits_size <= 0

\* line 149: cbits_size < 16
TooSmall(cbits_size) == cbits_size < 16

\* the mask buffer sized for half the mask's rows
MaskLen_HalfHeight(bm_width_bytes, bm_height) == bm_width_bytes * (bm_height \div 2)

\* line 155: mbits.resize(bm_mask.bmWidthBytes * bm_mask.bmHeight)
MaskLen(bm_width_bytes, bm_height) == bm_width_bytes * bm_height

\* line 156: GetBitmapBits was called for len bytes, and then the calls cs
\* were made, before the call returned o
Called(o, len, cs) ==
    [o EXCEPT !.req = len, !.calls = {"GetBitmapBits"} \cup cs \cup @]

\* the values handleMask may return
HandleMaskReturns == {-1, 0, 1}

\* a test for a value other than zero
Positive_NonZero(n) == n # 0

\* line 184: handleMask(..) > 0
Positive(n) == n > 0

\* lines 138-214
get_cursor_data(in) ==
    IF in.icon = "fail" THEN Failure("GetIconInfo", <<>>)
    ELSE IF in.icon = "masknull"
    THEN Failure("Cursor bitmap handle is NULL", NewIconInfo(in) \o DropIconInfo(in))
    ELSE IF in.bm # "ok"
    THEN Failure(in.bm, NewIconInfo(in) \o DropIconInfo(in))
    ELSE
    LET width == in.w
        height == IF in.color THEN in.bmh ELSE in.bmh \div 2
        cbits_size == width * height * 4
        stride == bmWidthBytes(in.w)
        mlen == MaskLen(stride, in.bmh)
        mbits == PatBuf(in.mpat, mlen)
    IN  IF TooSmall(cbits_size)
        THEN Failure("Invalid icon: too small", NewIconInfo(in) \o DropIconInfo(in))
        ELSE IF in.r = 0
        THEN Called(Failure("Failed to copy bitmap data",
                            NewIconInfo(in) \o DropIconInfo(in)), mlen, {})
        ELSE IF in.r # mlen
        THEN Called(Failure("Invalid mask cursor buffer size",
                            NewIconInfo(in) \o DropIconInfo(in)), mlen, {})
        ELSE IF in.color
        THEN LET rich == get_rich_cursor_data(in, width, height, Zeros(cbits_size)) IN
             IF rich.res # "Ok"
             THEN Called(Failure(rich.res,
                                 NewIconInfo(in) \o rich.log \o DropIconInfo(in)),
                         mlen, rich.calls)
             ELSE LET f == fix_cursor_mask(mbits, rich.out, width, height, stride) IN
                  Called(Finish(in, f.cbits, width, height, f.ret,
                                [called |-> TRUE, ret |-> f.ret, mbits_in |-> mbits,
                                 cbits_in |-> rich.out, mbits |-> f.mbits,
                                 cbits |-> f.cbits, cmid |-> f.cmid],
                                NewIconInfo(in) \o rich.log),
                         mlen, rich.calls \cup {"fix_cursor_mask"})
        ELSE Called(Finish(in, handleMask(mbits, width, height, stride, in.inv),
                           width, height, Positive(in.flag), NoFix, NewIconInfo(in)),
                    mlen, {"handleMask"})

\* ---- the inputs, by how far the call reads them
IconInputs ==
    {[NoInput EXCEPT !.icon = i, !.color = c, !.hot = h] :
        i \in {"fail", "masknull", "ok"}, c \in BOOLEAN, h \in HotSpots}

BitmapInputs(in) ==
    {[in EXCEPT !.bm = b] : b \in {"GetObjectA", "planes", "bits"}}
    \cup {[in EXCEPT !.w = w, !.bmh = bh] :
             w \in (1..MaxW) \cup {WideW}, bh \in 1..(IF in.color THEN MaxH ELSE 2 * MaxH)}

BitsInputs(in) ==
    LET mlen == bmWidthBytes(in.w) * in.bmh IN
    {[in EXCEPT !.r = r] : r \in {0, mlen - 1}}
    \cup {[in EXCEPT !.r = mlen, !.mpat = m] : m \in [1..PatLen -> MaskBytes]}

RichInputs(in) ==
    {[in EXCEPT !.rich = o] : o \in RichOutcomes \ {"ok"}}
    \cup {[in EXCEPT !.ppat = p] : p \in [1..PatLen -> Palette]}

MonoInputs(in) ==
    {[in EXCEPT !.flag = f, !.inv = v] : f \in HandleMaskReturns, v \in InvPixels}

Done(in) == [pc |-> "done", in |-> in, out |-> get_cursor_data(in)]

\* the variables of run_service, which a capture leaves alone
LoopVars == <<pc, status, session_id, h_process, stored_usid, nh, procSid, closes, ev>>

\* the call returns from IconInfo::new or get_bitmap (lines 140-141)
CaptureNoBitmap ==
    /\ cur.pc = "idle"
    /\ \E i \in IconInputs :
         IF i.icon # "ok" THEN cur' = Done(i)
         ELSE \E b \in BitmapInputs(i) : b.bm # "ok" /\ cur' = Done(b)
    /\ UNCHANGED LoopVars

\* the call returns from the size test or after GetBitmapBits (lines 148-166)
CaptureBadBits ==
    /\ cur.pc = "idle"
    /\ \E i \in IconInputs : i.icon = "ok" /\
         \E b \in BitmapInputs(i) : b.bm = "ok" /\
           IF TooSmall(b.w * (IF b.color THEN b.bmh ELSE b.bmh \div 2) * 4)
           THEN cur' = Done(b)
           ELSE \E m \in BitsInputs(b) :
                  m.r # bmWidthBytes(b.w) * b.bmh /\ cur' = Done(m)
    /\ UNCHANGED LoopVars

\* the mask bits were read
GoodBits ==
    UNION {UNION {{m \in BitsInputs(b) : m.r = bmWidthBytes(b.w) * b.bmh} :
                    b \in {b \in BitmapInputs(i) :
                             /\ b.bm = "ok"
                             /\ ~TooSmall(b.w * (IF b.color THEN b.bmh ELSE b.bmh \div 2)
                                              * 4)}} :
             i \in {i \in IconInputs : i.icon = "ok"}}

\* a color cursor: get_rich_cursor_data, fix_cursor_mask, outline (168-213)
CaptureColor ==
    /\ cur.pc = "idle"
    /\ \E m \in GoodBits : m.color /\
         \E c \in RichInputs(m) : cur' = Done(c)
    /\ UNCHANGED LoopVars

\* a monochrome cursor: handleMask, outline (177-213)
CaptureMono ==
    /\ cur.pc = "idle"
    /\ \E m \in GoodBits : ~m.color /\
         \E c \in MonoInputs(m) : cur' = Done(c)
    /\ UNCHANGED LoopVars

NextCursor ==
    \/ CaptureNoBitmap
    \/ CaptureBadBits
    \/ CaptureColor
    \/ CaptureMono

SpecCursor == Init /\ [][NextCursor]_vars

\* ---- the repack loop of fix_cursor_mask on its own, for any device stride
MaxPack == 3    \* the width is in 1..8 * MaxPack: up to MaxPack packed bytes a row
MaxPad == 2     \* the device stride is the packed width plus 0..MaxPad bytes
MaxRows == 3    \* the height is in 1..MaxRows

\* a buffer of n bytes that all differ
Ramp(seed, n) == [i \in 1..n |-> (seed + 37 * (i - 1)) % 256]

RampSeeds == {0, 1, 200}

\* line 349: (width + 7) >> 3
PackedWidthBytes(width) == (width + 7) \div 8

\* width, height, bm_width_bytes and mbits as fix_cursor_mask gets them
RepackInputs ==
    UNION {UNION {UNION {
        {[width |-> w, height |-> h, stride |-> st, mbits |-> m] :
            m \in {Ramp(sd, st * h) : sd \in RampSeeds}
                  \cup {PatBuf(pat, st * h) : pat \in [1..PatLen -> MaskBytes]}} :
        st \in PackedWidthBytes(w)..(PackedWidthBytes(w) + MaxPad)} :
        h \in 1..MaxRows} :
        w \in 1..(8 * MaxPack)}

\* lines 349-363 on one input
Repack ==
    /\ cur.pc = "idle"
    /\ \E in \in RepackInputs :
         cur' = [pc |-> "repacked", in |-> in,
                 out |-> PackInvert(in.mbits, 0, in.height,
                                    PackedWidthBytes(in.width), in.stride)]
    /\ UNCHANGED LoopVars

NextRepack == Repack

SpecRepack == Init /\ [][NextRepack]_vars

(***************************************************************************)
(* Properties of the service loop                                          *)
(***************************************************************************)
InLoop == pc \in {"top", "top_queued", "wait", "close_queued"}

\* the step taken is the top of an iteration / the wait of an iteration,
\* with or without the callback's connection pending
TopStep == pc \in {"top", "top_queued"} /\ pc' \in {"wait", "close_queued"}
WaitStep == pc \in {"wait", "close_queued"} /\ pc' \in {"top", "top_queued", "stopped"}

LaunchedFor(e, sid) == e.launch.att /\ e.launch.sid = sid

\* C1: while the loop runs, a worker that is still running and is held in
\* h_process was launched for the current session_id.
C1_WorkerBoundToSession ==
    (InLoop /\ h_process # NULL /\ h_process \in alive)
        => procSid[h_process] = session_id

\* C2: at most one worker process launched by the loop is alive at any time.
C2_AtMostOneWorker == Cardinality(alive) <= 1

\* C3: once an OverrideSession(B) has been handled (stored_usid = session_id
\* = B), the top of an iteration that finds B available with sharing enabled,
\* and every timeout, leave session_id at B and launch for no other session,
\* whatever active session the timeout is told.
C3_StickyOverride ==
    [][ ( /\ (TopStep /\ ev'.has /\ ev'.share) \/ (WaitStep /\ ev'.kind = "timeout")
          /\ stored_usid # None
          /\ stored_usid = session_id )
        => ( /\ session_id' = session_id
             /\ stored_usid' = stored_usid
             /\ ev'.launch.att => ev'.launch.sid = session_id
             /\ TopStep => ~ev'.launch.att ) ]_vars

\* C3 witness: a timeout was told an active session A different from the
\* overridden session B and the loop still serves B.
C3_Witness ==
    /\ pc = "top"
    /\ ev.kind = "timeout"
    /\ stored_usid \in Sessions
    /\ stored_usid = session_id
    /\ ev.tmp \in Sessions
    /\ ev.tmp # session_id

\* C4: after Close is read the loop has stopped, reported Stopped, sent one
\* close notification and released the handle in h_process exactly once.
C4_CloseReleasesOnce ==
    pc = "stopped" =>
        /\ ev.kind \in {"close", "ctlclose"}
        /\ status = "Stopped"
        /\ ~ev.launch.att
        /\ h_process # NULL => (ev.notes = 1 /\ closes[h_process] = 1)

\* C5: CloseHandle is applied to each handle at most once, and the loop
\* never holds in h_process a handle it has already closed.
C5_NoDoubleClose ==
    /\ \A h \in Handles : closes[h] <= 1
    /\ (InLoop /\ h_process # NULL) => closes[h_process] = 0

\* C6: at loop exit every handle a launch returned has been closed.
C6_NoLeak ==
    pc = "stopped" => \A h \in 1..nh : closes[h] >= 1

\* ---- C7
\* the iteration in progress saw session 1 as the only available and active
\* session: session_id is 1 after its top, which either found 1 available
\* or had just switched to 1, and was told no other active session
OnlySession1 ==
    /\ pc = "wait"
    /\ ev.kind = "top"
    /\ session_id = 1
    /\ ev.has \/ LaunchedFor(ev, 1)
    /\ ev.tmp \in {None, 1}

\* the worker is not running: handle absent or process exited
NotRunning == h_process = NULL \/ procSid[h_process] \in Exited

\* the same with a handle the loop still holds open
NotRunningOpen ==
    h_process = NULL \/ (procSid[h_process] \in Exited /\ closes[h_process] = 0)

\* C7, for an iteration that ends with a timeout: from such a state, with
\* the handle absent or still held open, the timeout attempts a launch for
\* session 1.
C7_LaunchOnTimeout ==
    [][ ( /\ WaitStep
          /\ ev'.kind = "timeout"
          /\ ev'.tmp = 1
          /\ OnlySession1
          /\ NotRunningOpen )
        => LaunchedFor(ev', 1) ]_vars

\* C8: the loop is left, and Stopped reported, only by the step that read
\* Close; a failed listener is the only other way out of run_service.
C8_OnlyCloseExits ==
    /\ (pc = "stopped" \/ status = "Stopped") => ev.kind \in {"close", "ctlclose"}
    /\ pc = "failed" => ev.kind = "listen_fail"
    /\ ev.kind \in {"top", "sas", "usid", "other", "readtimeout", "noconn", "timeout"}
          => (InLoop /\ status = "Running")

\* C8 witness: a timeout whose launch failed left the loop running.
C8_Witness ==
    /\ pc = "top"
    /\ status = "Running"
    /\ ev.kind = "timeout"
    /\ ev.launch.att
    /\ ev.launch.h = NULL

\* C9: after a failed launch in the loop the handle is absent.
C9_FailedLaunchLeavesAbsent ==
    (InLoop /\ ev.launch.att /\ ev.launch.h = NULL) => h_process = NULL

\* C10: when the listener cannot be created run_service returns with the
\* handle of the initial launch released.
C10_ListenFailReleases ==
    pc = "failed" => (h_process # NULL => closes[h_process] = 1)

\* C17: a timeout that finds the worker not running (handle absent, or
\* process exited with its handle still open) attempts a launch for the
\* current session in that iteration, whatever the re-query of the active
\* session answered, 0xFFFFFFFF included.
C17_LivenessEveryTimeout ==
    [][ ( /\ WaitStep
          /\ ev'.kind = "timeout"
          /\ NotRunningOpen )
        => LaunchedFor(ev', session_id') ]_vars

\* C18: a timeout told a valid active session T that differs from
\* session_id, with session_id not the recorded override, sets session_id
\* to T, sends exactly one close notification and launches for T without
\* close-first in that iteration.
C18_SwitchRelaunchesSameIteration ==
    [][ ( /\ WaitStep
          /\ ev'.kind = "timeout"
          /\ ev'.tmp \in Sessions
          /\ ev'.tmp # session_id
          /\ stored_usid # session_id )
        => ( /\ session_id' = ev'.tmp
             /\ ev'.notes = 1
             /\ LaunchedFor(ev', ev'.tmp)
             /\ ~ev'.launch.close_first ) ]_vars

\* C19: the step that reads UserSid(Some(sid)) with sid different from
\* session_id sets session_id and stored_usid to sid and calls
\* launch_server(sid, true); no list of available sessions is consulted.
C19_OverrideSwitches ==
    [][ ( /\ WaitStep
          /\ ev'.kind = "usid"
          /\ ev'.usid # None
          /\ ev'.usid # session_id )
        => ( /\ session_id' = ev'.usid
             /\ stored_usid' = ev'.usid
             /\ LaunchedFor(ev', ev'.usid)
             /\ ev'.launch.close_first
             /\ ev'.notes = 1 ) ]_vars

\* C19 witness: an override to a session other than the one being served
\* was handled and the loop moved to it; the next top of the loop has not
\* yet asked which sessions are available.
C19_Witness ==
    /\ pc = "top"
    /\ ev.kind = "usid"
    /\ ev.usid \in Sessions
    /\ LaunchedFor(ev, ev.usid)
    /\ ev.launch.close_first
    /\ session_id = ev.usid
    /\ stored_usid = ev.usid

\* C20: the top of an iteration changes session_id exactly when
\* (session_id is not available or sharing is disabled) and the active
\* session differs; it then moves to the active session with a close-first
\* launch.  Otherwise session_id, stored_usid and h_process are unchanged
\* and nothing is launched.
C20_TopCorrection ==
    [][ TopStep =>
          IF (~ev'.has \/ ~ev'.share) /\ ev'.tmp # session_id
          THEN /\ session_id' = ev'.tmp
               /\ stored_usid' = stored_usid
               /\ LaunchedFor(ev', ev'.tmp)
               /\ ev'.launch.close_first
          ELSE /\ session_id' = session_id
               /\ stored_usid' = stored_usid
               /\ h_process' = h_process
               /\ ~ev'.launch.att ]_vars

\* C20 witness: session_id was available but sharing was disabled, and the
\* top of the iteration moved to the active session with a launch.
C20_Witness ==
    /\ pc = "wait"
    /\ ev.kind = "top"
    /\ ev.has
    /\ ~ev.share
    /\ ev.tmp \in Sessions
    /\ session_id = ev.tmp
    /\ LaunchedFor(ev, ev.tmp)
    /\ h_process # NULL


\* the override has been departed from by auto-detection: either session_id
\* differs from the recorded override, or the top of this iteration has just
\* adopted the active session (so session_id differed from it before)
Invalidated ==
    /\ stored_usid # None
    /\ \/ session_id # stored_usid
       \/ (pc = "wait" /\ ev.kind = "top" /\ LaunchedFor(ev, session_id))

\* C21: once the override has been departed from by auto-detection, a
\* timeout told a valid active session other than session_id moves to it,
\* also when session_id has come back to the old override value by
\* auto-detection.
C21_InvalidatedOverrideNotSticky ==
    [][ ( /\ WaitStep
          /\ ev'.kind = "timeout"
          /\ ev'.tmp \in Sessions
          /\ ev'.tmp # session_id
          /\ Invalidated )
        => session_id' = ev'.tmp ]_vars

\* C22: a connection whose message is SAS, is of another kind, or does not
\* arrive in time leaves session_id, stored_usid and h_process unchanged,
\* launches nothing, sends no close message and goes on to the next
\* iteration (line 514, with or without the callback's Close connection
\* pending); send_sas is called for SAS and only for SAS.
C22_NoStateChange ==
    [][ ( /\ WaitStep
          /\ ev'.kind \in {"sas", "other", "readtimeout"} )
        => ( /\ pc' \in {"top", "top_queued"}
             /\ status' = status
             /\ session_id' = session_id
             /\ stored_usid' = stored_usid
             /\ h_process' = h_process
             /\ ~ev'.launch.att
             /\ ev'.notes = 0
             /\ (ev'.sas <=> ev'.kind = "sas") ) ]_vars

\* C22 witness: SAS was read while an override was recorded and a worker
\* handle held, and the loop goes on.
C22_Witness ==
    /\ pc = "top"
    /\ status = "Running"
    /\ ev.kind = "sas"
    /\ ev.sas
    /\ stored_usid \in Sessions
    /\ h_process # NULL

\* C23: UserSid(None) and UserSid(Some(sid)) with sid = session_id change
\* nothing and launch nothing, and the loop goes on to line 514 (with or
\* without the callback's Close connection pending); and while no override
\* is recorded a timeout told a valid active session other than session_id
\* moves to it.
C23_SameSessionOverrideIgnored ==
    [][ /\ ( /\ WaitStep
              /\ ev'.kind = "usid"
              /\ (ev'.usid = None \/ ev'.usid = session_id) )
            => ( /\ pc' \in {"top", "top_queued"}
                 /\ session_id' = session_id
                 /\ stored_usid' = stored_usid
                 /\ h_process' = h_process
                 /\ ~ev'.launch.att
                 /\ ev'.notes = 0 )
        /\ ( /\ WaitStep
              /\ ev'.kind = "timeout"
              /\ stored_usid = None
              /\ ev'.tmp \in Sessions
              /\ ev'.tmp # session_id )
            => session_id' = ev'.tmp ]_vars

\* C23 witness: UserSid(Some(session_id)) was read with no override
\* recorded; none is recorded after it and the worker handle is held.
C23_Witness ==
    /\ pc = "top"
    /\ ev.kind = "usid"
    /\ ev.usid \in Sessions
    /\ ev.usid = session_id
    /\ ~ev.launch.att
    /\ stored_usid = None
    /\ h_process # NULL

\* C28: a step that asks for the active session (service start, the top of
\* an iteration, a timeout) and is answered 0xFFFFFFFF leaves session_id and
\* h_process unchanged and launches nothing.
C28_SentinelNeverAdopted ==
    [][ ( /\ (pc = "start" \/ TopStep \/ WaitStep)
          /\ ev'.kind \in {"start", "top", "timeout"}
          /\ ev'.tmp = NoSession )
        => ( /\ session_id' = session_id
             /\ h_process' = h_process
             /\ ~ev'.launch.att ) ]_vars

\* C29: the service-control callback leaves currentSessionId (session_id),
\* overrideSessionId (stored_usid), the worker handle and everything else of
\* the loop untouched: a step that only queues the callback's Close
\* connection changes none of them, and they change only in steps of the
\* loop itself (which ev records); and once that connection is queued the
\* loop eventually takes its Close path (the code after the loop) and
\* reports Stopped.
C29_CallbackOnlySendsClose ==
    /\ [][ (pc' # pc /\ pc' = Queued(pc))
            => ( /\ session_id' = session_id
                 /\ stored_usid' = stored_usid
                 /\ h_process' = h_process
                 /\ status' = status
                 /\ procSid' = procSid
                 /\ closes' = closes ) ]_vars
    /\ [][ ev' = ev
            => ( /\ session_id' = session_id
                 /\ stored_usid' = stored_usid
                 /\ h_process' = h_process ) ]_vars
    /\ (pc \in {"top_queued", "close_queued"})
         ~> (pc = "stopped" /\ status = "Stopped" /\ ev.kind = "ctlclose")

\* the loop has shut down on the callback's Close, with a worker to close
C29_Witness ==
    /\ pc = "stopped"
    /\ status = "Stopped"
    /\ ev.kind = "ctlclose"
    /\ ev.notes = 1
    /\ h_process # NULL

\* the worker behind handle h has exited and the loop has not noticed yet
WorkerGone(h) ==
    /\ pc \in {"top", "wait"}
    /\ h_process = h
    /\ procSid[h] \in Exited
    /\ closes[h] = 0

\* the loop has received a Close, or has replaced or released handle h, which
\* it does only on the way to a launch_server call
Recovered(h) ==
    \/ pc \in {"stopped", "top_queued", "close_queued"}
    \/ h_process # h
    \/ closes[h] > 0

\* C30: once the worker has exited, the loop eventually attempts a relaunch
\* (or receives a Close), whatever connections arrive, provided only that
\* the loop keeps iterating.
C30_RelaunchEventually ==
    \A h \in Handles : WorkerGone(h) ~> Recovered(h)

(***************************************************************************)
(* Properties of get_cursor_data                                           *)
(***************************************************************************)
Returned == cur.pc = "done"
Captured == Returned /\ cur.out.res = "Ok"

\* the width and height get_cursor_data derives from the mask bitmap
IconWidth == cur.in.w
IconHeight == IF cur.in.color THEN cur.in.bmh ELSE cur.in.bmh \div 2

\* fix_cursor_mask ran on a buffer with some / with no non-zero alpha byte
SomeAlpha == \E i \in 1..Len(cur.out.fix.cbits_in) :
                 i % 4 = 0 /\ cur.out.fix.cbits_in[i] # 0
EarlyExit == Returned /\ cur.out.fix.called /\ SomeAlpha
FullPath == Returned /\ cur.out.fix.called /\ ~SomeAlpha

PixelIds == 0..(IconWidth * IconHeight - 1)

\* byte j of pixel k in a color buffer
Byte(buf, k, j) == buf[4 * k + j + 1]

\* the bit of pixel k in a mask whose rows are rowbytes apart
MaskBit(mask, k, rowbytes) ==
    BitAt(mask[(k \div IconWidth) * rowbytes + ((k % IconWidth) \div 8) + 1],
          k % IconWidth)

\* C11: a successful capture returns width * height * 4 bytes.
C11_BufferLength ==
    Captured => Len(cur.out.colors) = cur.out.width * cur.out.height * 4

\* C11 witness: a monochrome capture with an outline returned its buffer.
C11_Witness ==
    /\ Captured
    /\ ~cur.in.color
    /\ cur.out.do_outline
    /\ cur.out.width = IconWidth + 2
    /\ Len(cur.out.colors) >= 16

\* C12: when some alpha byte of the extracted buffer is not zero,
\* fix_cursor_mask returns false with both buffers as it got them, and the
\* capture returns the extracted buffer with the mask's dimensions and the
\* icon's hotspot, without outline.
C12_EarlyExitUntouched ==
    EarlyExit =>
        /\ cur.out.fix.ret = FALSE
        /\ cur.out.fix.cbits = cur.out.fix.cbits_in
        /\ cur.out.fix.mbits = cur.out.fix.mbits_in
        /\ cur.out.res = "Ok"
        /\ ~cur.out.do_outline
        /\ cur.out.colors = cur.out.fix.cbits_in
        /\ cur.out.width = cur.in.w
        /\ cur.out.height = cur.in.bmh
        /\ <<cur.out.hotx, cur.out.hoty>> = cur.in.hot

\* C12 witness: a buffer with a pixel of alpha 200 and a pixel of alpha 0
\* whose color bytes differ, over a mask with bits of both values.
C12_Witness ==
    /\ EarlyExit
    /\ \E k \in PixelIds : Byte(cur.out.fix.cbits_in, k, 3) = 200
    /\ \E k \in PixelIds : /\ Byte(cur.out.fix.cbits_in, k, 3) = 0
                            /\ Byte(cur.out.fix.cbits_in, k, 0)
                                  # Byte(cur.out.fix.cbits_in, k, 2)
    /\ \E k, l \in PixelIds :
          MaskBit(cur.out.fix.mbits_in, k, bmWidthBytes(IconWidth))
             # MaskBit(cur.out.fix.mbits_in, l, bmWidthBytes(IconWidth))

\* C13: when every alpha byte of the extracted buffer is zero, each output
\* pixel has alpha 0 or 255, 255 exactly when its bit in the packed mask
\* fix_cursor_mask leaves is set, and has bytes 0 and 2 of the buffer left
\* by the replacement loop exchanged and byte 1 kept.
C13_AlphaAndSwap ==
    FullPath =>
        /\ cur.out.fix.ret = TRUE
        /\ \A k \in PixelIds :
              /\ Byte(cur.out.fix.cbits, k, 3) \in {0, 255}
              /\ Byte(cur.out.fix.cbits, k, 3) = 255
                    <=> MaskBit(cur.out.fix.mbits, k, (IconWidth + 7) \div 8) = 1
              /\ Byte(cur.out.fix.cbits, k, 0) = Byte(cur.out.fix.cmid, k, 2)
              /\ Byte(cur.out.fix.cbits, k, 1) = Byte(cur.out.fix.cmid, k, 1)
              /\ Byte(cur.out.fix.cbits, k, 2) = Byte(cur.out.fix.cmid, k, 0)

\* C13 witness: the output has a transparent pixel and an opaque pixel whose
\* bytes 0 and 2 differ.
C13_Witness ==
    /\ FullPath
    /\ \E k \in PixelIds : Byte(cur.out.fix.cbits, k, 3) = 0
    /\ \E k \in PixelIds : /\ Byte(cur.out.fix.cbits, k, 3) = 255
                            /\ Byte(cur.out.fix.cbits, k, 0) = 7
                            /\ Byte(cur.out.fix.cbits, k, 2) = 5

\* the bit of pixel k in the mask as GetBitmapBits wrote it, inverted
InvertedBit(k) == 1 - MaskBit(cur.out.fix.mbits_in, k, bmWidthBytes(IconWidth))

\* pixel k of the extracted buffer has a non-zero color byte
Colored(k) == \E j \in 0..2 : Byte(cur.out.fix.cbits_in, k, j) # 0

\* pixel k of a buffer
Pixel(buf, k) == <<Byte(buf, k, 0), Byte(buf, k, 1), Byte(buf, k, 2), Byte(buf, k, 3)>>

\* C14: when every alpha byte of the extracted buffer is zero, a pixel with
\* inverted mask bit 0 comes out opaque black if it has a non-zero color
\* byte and fully zero otherwise, and a pixel with inverted mask bit 1
\* comes out with its color bytes 0 and 2 exchanged and alpha 255.
C14_InvertedBackgroundBlack ==
    FullPath =>
        \A k \in PixelIds :
            Pixel(cur.out.fix.cbits, k) =
                IF InvertedBit(k) = 0
                THEN IF Colored(k) THEN <<0, 0, 0, 255>> ELSE <<0, 0, 0, 0>>
                ELSE <<Byte(cur.out.fix.cbits_in, k, 2), Byte(cur.out.fix.cbits_in, k, 1),
                       Byte(cur.out.fix.cbits_in, k, 0), 255>>

\* C14 witness: two pixels of one mask byte have inverted bit 0; the
\* colored one came out opaque black and the all-zero one transparent.
C14_Witness ==
    /\ FullPath
    /\ \E k, l \in PixelIds :
          /\ k \div IconWidth = l \div IconWidth
          /\ InvertedBit(k) = 0 /\ Colored(k)
          /\ InvertedBit(l) = 0 /\ ~Colored(l)
          /\ Pixel(cur.out.fix.cbits, k) = <<0, 0, 0, 255>>
          /\ Pixel(cur.out.fix.cbits, l) = <<0, 0, 0, 0>>

\* C15: with an outline the returned width and height are the icon's plus
\* 2 and the hotspot is the icon's plus 1 in x and y; without one they are
\* the icon's.
C15_OutlineGeometry ==
    Captured =>
        IF cur.out.do_outline
        THEN /\ cur.out.width = IconWidth + 2
             /\ cur.out.height = IconHeight + 2
             /\ cur.out.hotx = cur.in.hot[1] + 1
             /\ cur.out.hoty = cur.in.hot[2] + 1
        ELSE /\ cur.out.width = IconWidth
             /\ cur.out.height = IconHeight
             /\ cur.out.hotx = cur.in.hot[1]
             /\ cur.out.hoty = cur.in.hot[2]

\* C15 witness: a color capture with an outline and hotspot (0, 1).
C15_Witness ==
    /\ Captured
    /\ cur.in.color
    /\ cur.out.do_outline
    /\ cur.in.hot = <<0, 1>>
    /\ <<cur.out.hotx, cur.out.hoty>> = <<1, 2>>

\* the returned buffer is the one drawOutline fills
Outlined ==
    /\ Len(cur.out.colors) = OutlineLen(IconWidth, IconHeight)
    /\ cur.out.width = IconWidth + 2
    /\ cur.out.height = IconHeight + 2

\* C24: a successful capture synthesizes the outline exactly when the
\* needs-outline flag is true; for a color cursor the flag is true exactly
\* when fix_cursor_mask found every alpha byte zero and ran to its end,
\* whatever pixels it produced; for a monochrome cursor exactly when
\* handleMask returned a positive value.
C24_OutlineExactlyWhenFlag ==
    Captured =>
        /\ Outlined <=> cur.out.do_outline
        /\ cur.in.color =>
              /\ cur.out.fix.called
              /\ cur.out.do_outline <=> cur.out.fix.ret
              /\ cur.out.fix.ret <=> ~SomeAlpha
        /\ ~cur.in.color =>
              /\ ~cur.out.fix.called
              /\ cur.out.do_outline <=> cur.in.flag > 0

\* C24 witness: a color capture whose reconciled buffer is transparent
\* everywhere and which is outlined all the same.
C24_Witness ==
    /\ Captured
    /\ cur.in.color
    /\ FullPath
    /\ \A k \in PixelIds : Byte(cur.out.fix.cbits, k, 3) = 0
    /\ Outlined

\* GetBitmapBits was called
BitsRead == Returned /\ "GetBitmapBits" \in cur.out.calls

\* C25 as stated: the mask bits are read into a buffer of row stride times
\* the icon's height (the mask's height for a color cursor, half of it for a
\* monochrome one), and the capture fails with the size-mismatch error
\* exactly when GetBitmapBits returns another count than that size.
C25_MaskBufferIconHeight ==
    BitsRead =>
        /\ cur.out.req = bmWidthBytes(cur.in.w) * IconHeight
        /\ cur.out.res = "Invalid mask cursor buffer size" <=> cur.in.r # cur.out.req

\* C25 amended: the buffer has row stride times the mask's height bytes,
\* for a monochrome cursor too (both stacked halves); a count of zero fails
\* with the copy error, and the capture fails with the size-mismatch error
\* exactly when the count is neither zero nor the size of the buffer.
C25_MaskBufferMaskHeight ==
    BitsRead =>
        /\ cur.out.req = bmWidthBytes(cur.in.w) * cur.in.bmh
        /\ cur.out.res = "Failed to copy bitmap data" <=> cur.in.r = 0
        /\ cur.out.res = "Invalid mask cursor buffer size"
              <=> (cur.in.r # 0 /\ cur.in.r # cur.out.req)

\* C25 witness: a monochrome capture read a mask twice as high as the icon.
C25_Witness ==
    /\ Captured
    /\ ~cur.in.color
    /\ cur.in.bmh = 2 * IconHeight
    /\ cur.in.r = cur.out.req
    /\ cur.out.req = 2 * bmWidthBytes(cur.in.w) * IconHeight
    /\ "handleMask" \in cur.out.calls

\* get_bitmap returned the mask's geometry
GeometryOk == Returned /\ cur.in.icon = "ok" /\ cur.in.bm = "ok"

\* C26: once the mask's geometry is accepted, the capture fails with the
\* invalid-icon error exactly when width * height * 4 < 16, the height being
\* the mask's for a color cursor and half of it, rounded down, for a
\* monochrome one; and then GetBitmapBits, get_di_bits, fix_cursor_mask,
\* handleMask and drawOutline are not called.
C26_InvalidIconExactly ==
    GeometryOk =>
        /\ cur.out.res = "Invalid icon: too small"
              <=> IconWidth * IconHeight * 4 < 16
        /\ cur.out.res = "Invalid icon: too small" =>
              /\ cur.out.calls = {}
              /\ cur.out.req = 0
              /\ ~cur.out.fix.called
              /\ cur.out.colors = <<>>
              /\ cur.out.log = NewIconInfo(cur.in) \o DropIconInfo(cur.in)

\* C26 witness: a monochrome 2 x 3 mask, whose icon height rounds down to 1,
\* is rejected as too small.
C26_Witness ==
    /\ Returned
    /\ ~cur.in.color
    /\ cur.in.w = 2
    /\ cur.in.bmh = 3
    /\ cur.out.res = "Invalid icon: too small"
    /\ cur.out.calls = {}

Repacked == cur.pc = "repacked"

\* the iterations (y, x) of the repack loop, and their order
RepackSteps == (0..(cur.in.height - 1)) \X (0..(PackedWidthBytes(cur.in.width) - 1))
Earlier(s, t) == s[1] < t[1] \/ (s[1] = t[1] /\ s[2] < t[2])

\* C27: for every width, height and device stride S >= P = ceil(width / 8),
\* on a buffer of S * height bytes, the in-place repack leaves in byte
\* y * P + x the bitwise NOT of the original byte y * S + x, as copying into
\* a second buffer would; no iteration writes a byte that a later iteration
\* reads.
C27_RepackMatchesReference ==
    Repacked =>
        LET P == PackedWidthBytes(cur.in.width)
            S == cur.in.stride
        IN  /\ Len(cur.out) = S * cur.in.height
            /\ \A s \in RepackSteps :
                  At(cur.out, s[1] * P + s[2]) = 255 - At(cur.in.mbits, s[1] * S + s[2])
            /\ \A s, t \in RepackSteps :
                  Earlier(s, t) => s[1] * P + s[2] # t[1] * S + t[2]

\* C27 witness: three rows of two packed bytes at a stride of three, over
\* bytes that all differ, so that rows 1 and 2 move and are written over
\* bytes that earlier rows have read.
C27_Witness ==
    /\ Repacked
    /\ cur.in.width = 9
    /\ cur.in.height = 3
    /\ cur.in.stride = 3
    /\ cur.in.mbits = Ramp(1, 9)
    /\ At(cur.out, 2) = 255 - At(cur.in.mbits, 3)
    /\ At(cur.out, 3) # At(cur.in.mbits, 3)

Resources == {"hbmColor", "hbmMask", "DC", "CompatibleDC", "Select"}

\* the positions of a call in the log
Calls(log, c) == {i \in 1..Len(log) : log[i] = c}

\* resource r is acquired at most once and then released exactly once, later
ReleasedOnce(log, r) ==
    /\ Cardinality(Calls(log, "+" \o r)) <= 1
    /\ Cardinality(Calls(log, "-" \o r)) = Cardinality(Calls(log, "+" \o r))
    /\ \A i \in Calls(log, "+" \o r), j \in Calls(log, "-" \o r) : i < j

\* every release call for r comes before every release call for q
ReleasedBefore(log, r, q) ==
    \A i \in Calls(log, "-" \o r), j \in Calls(log, "-" \o q) : i < j

\* C16: when the call has returned, every resource it acquired has been
\* released exactly once: the bitmaps GetIconInfo created, the screen
\* context, the compatible context and the selection; the selection is
\* restored before the compatible context is deleted, and that before the
\* screen context is released.
C16_ResourcesReleased ==
    Returned =>
        /\ \A r \in Resources : ReleasedOnce(cur.out.log, r)
        /\ ReleasedBefore(cur.out.log, "Select", "CompatibleDC")
        /\ ReleasedBefore(cur.out.log, "CompatibleDC", "DC")
        /\ cur.in.icon = "ok" => Calls(cur.out.log, "+hbmMask") # {}
        /\ (cur.in.icon # "fail" /\ cur.in.color) => Calls(cur.out.log, "+hbmColor") # {}

\* C16 witness: get_di_bits failed after all five resources were acquired.
C16_Witness ==
    /\ Returned
    /\ cur.out.res = "Failed to get di bits"
    /\ \A r \in Resources : Calls(cur.out.log, "+" \o r) # {}
    /\ \A r \in Resources : Calls(cur.out.log, "-" \o r) # {}

====
